---------------------------- MODULE Spec2Model ----------------------------
(***************************************************************************)
(* Product catalog REST service (service/routes.py).                       *)
(*                                                                         *)
(* The state is the product table of the store, the store's id sequence,   *)
(* and the request being answered with its response.  One action per       *)
(* route handler.  Product, Category and the error handlers live in        *)
(* service/models.py and service/common, which are not part of the         *)
(* sources at hand: they are modelled from the specification (sections 3,  *)
(* 4.1, 6 and 7) and marked so in the model map.                           *)
(***************************************************************************)
EXTENDS Integers, Sequences, FiniteSets

VARIABLES
    table,      \* the product table: a sequence of rows, in insertion order
    nextId,     \* the next value of the table's id sequence
    request,    \* the request handled last
    response,   \* the response to it
    before,     \* history: the table as it was when that request arrived
    assigned,   \* history: the ids the 201 responses have carried, in order
    deleted,    \* history: the ids for which DELETE has answered 204
    product,    \* the entity a caller of the model holds in memory
    payload,    \* the payload handed to the last deserialize
    copy,       \* the entity the last deserialize has filled
    raised,     \* whether the last call on the model raised a validation error
    call,       \* the last call on the model
    procs       \* the DELETE requests in progress, one record per worker

vars ==
    <<table, nextId, request, response, before, assigned, deleted,
      product, payload, copy, raised, call, procs>>

modelVars == <<product, payload, copy, raised, call>>

storeVars == <<table, nextId, before, assigned, deleted>>

(***************************************************************************)
(* Bounds of the model.                                                    *)
(***************************************************************************)
MaxRows == 2        \* rows the table may hold
MaxId == 3          \* ids the sequence may hand out
MaxScale == 3       \* decimal places a price may have

(***************************************************************************)
(* HTTP status codes (service.common.status).                              *)
(***************************************************************************)
HTTP_200_OK == 200
HTTP_201_CREATED == 201
HTTP_204_NO_CONTENT == 204
HTTP_400_BAD_REQUEST == 400
HTTP_404_NOT_FOUND == 404
HTTP_415_UNSUPPORTED_MEDIA_TYPE == 415

(***************************************************************************)
(* JSON values.  A value carries its JSON type; a string whose characters  *)
(* matter (a price) is a sequence of one-character strings.                *)
(***************************************************************************)
JNull == [t |-> "null"]
JBool(b) == [t |-> "bool", b |-> b]
JInt(n) == [t |-> "int", n |-> n]
JStr(s) == [t |-> "str", s |-> s]
JText(chars) == [t |-> "str", chars |-> chars]

\* The id of a product that was never persisted (Python's None).
None == -1

(***************************************************************************)
(* Category: the closed enumeration of category names.  A member is held   *)
(* by its value and serialized by its name.                                *)
(***************************************************************************)
CategoryNames == <<"UNKNOWN", "CLOTHS", "FOOD">>

Category == 0 .. (Len(CategoryNames) - 1)

CategoryName(c) == CategoryNames[c + 1]

HasCategory(name) == \E c \in Category : CategoryName(c) = name

CategoryOf(name) == CHOOSE c \in Category : CategoryName(c) = name

(***************************************************************************)
(* Decimal: an exact decimal, coef * 10^exp with exp <= 0.                 *)
(* ParseDecimal is Decimal(text) for a text of digits with at most one     *)
(* point; FormatDecimal is str(decimal).                                   *)
(***************************************************************************)
Digits == <<"0", "1", "2", "3", "4", "5", "6", "7", "8", "9">>

DigitVal(c) == (CHOOSE i \in 1 .. 10 : Digits[i] = c) - 1

RECURSIVE DigitsValue(_)
DigitsValue(ds) ==
    IF ds = <<>> THEN 0
    ELSE 10 * DigitsValue(SubSeq(ds, 1, Len(ds) - 1)) + DigitVal(ds[Len(ds)])

PointAt(text) ==
    IF \E i \in 1 .. Len(text) : text[i] = "."
    THEN CHOOSE i \in 1 .. Len(text) : text[i] = "."
    ELSE 0

ParseDecimal(text) ==
    LET dot == PointAt(text)
        ds  == SelectSeq(text, LAMBDA c : c # ".")
    IN  [coef |-> DigitsValue(ds),
         exp  |-> IF dot = 0 THEN 0 ELSE 0 - (Len(text) - dot)]

RECURSIVE IntDigits(_)
IntDigits(n) ==
    IF n < 10 THEN <<Digits[n + 1]>>
    ELSE IntDigits(n \div 10) \o <<Digits[(n % 10) + 1]>>

RECURSIVE Zeros(_)
Zeros(k) == IF k <= 0 THEN <<>> ELSE <<"0">> \o Zeros(k - 1)

\* Mutant of FormatDecimal: a value below one is not padded with zeros, so
\* that 0.005 is written 0.5.
FormatDecimalUnpadded(d) ==
    LET scale == 0 - d.exp
        ds    == IntDigits(d.coef)
        cut   == Len(ds) - scale
    IN  IF scale = 0 THEN ds
        ELSE IF cut <= 0 THEN <<"0", ".">> \o ds
        ELSE SubSeq(ds, 1, cut) \o <<".">> \o SubSeq(ds, cut + 1, Len(ds))

FormatDecimal(d) ==
    LET scale  == 0 - d.exp
        ds     == IntDigits(d.coef)
        padded == Zeros(scale + 1 - Len(ds)) \o ds
        cut    == Len(padded) - scale
    IN  IF scale = 0 THEN ds
        ELSE SubSeq(padded, 1, cut) \o <<".">> \o SubSeq(padded, cut + 1, Len(padded))

RECURSIVE Pow10(_)
Pow10(k) == IF k <= 0 THEN 1 ELSE 10 * Pow10(k - 1)

\* Decimal equality is equality of value: 12.5 = 12.50.
DecimalEq(a, b) ==
    a.coef * Pow10(a.exp - b.exp) = b.coef * Pow10(b.exp - a.exp)

(***************************************************************************)
(* Product: the entity, its wire form and the repository operations.       *)
(***************************************************************************)
\* Product(): an entity that holds no data yet and was never persisted.
NewProduct ==
    [id |-> None, name |-> "", description |-> "",
     price |-> [coef |-> 0, exp |-> 0], available |-> FALSE, category |-> 0]

Serialize(p) ==
    [id          |-> IF p.id = None THEN JNull ELSE JInt(p.id),
     name        |-> JStr(p.name),
     description |-> JStr(p.description),
     price       |-> JText(FormatDecimal(p.price)),
     available   |-> JBool(p.available),
     category    |-> JStr(CategoryName(p.category))]

\* A JSON object is a function from its keys to JSON values; anything else
\* (an array, a string, a number) is not a mapping.
IsMapping(data) == data.kind = "object"

\* Mutant of Deserialize: `available` is coerced to a boolean instead of
\* checked, so that a string or a number passes.
DeserializeCoercing(p, data) ==
    LET f  == data.fields
        has(k) == k \in DOMAIN f
        p1 == [p  EXCEPT !.name = f["name"].s]
        p2 == IF has("description")
              THEN [p1 EXCEPT !.description = f["description"].s]
              ELSE p1
        p3 == [p2 EXCEPT !.price = ParseDecimal(f["price"].chars)]
        p4 == [p3 EXCEPT !.available =
                  IF f["available"].t = "bool" THEN f["available"].b ELSE TRUE]
        p5 == [p4 EXCEPT !.category = CategoryOf(f["category"].s)]
    IN  IF ~IsMapping(data) THEN [ok |-> FALSE, product |-> p]
        ELSE IF ~has("name") THEN [ok |-> FALSE, product |-> p]
        ELSE IF ~has("price") THEN [ok |-> FALSE, product |-> p2]
        ELSE IF ~has("available") THEN [ok |-> FALSE, product |-> p3]
        ELSE IF ~has("category") THEN [ok |-> FALSE, product |-> p4]
        ELSE IF ~HasCategory(f["category"].s) THEN [ok |-> FALSE, product |-> p4]
        ELSE [ok |-> TRUE, product |-> p5]

(***************************************************************************)
(* deserialize: the fields are assigned one after the other, so a payload  *)
(* that fails part-way leaves the entity with the fields assigned so far.  *)
(* The result is the entity and whether the payload was valid.  name,      *)
(* price, available and category are required and description is optional; *)
(* the payload's id, if any, is not read: the id belongs to the store.     *)
(***************************************************************************)
Deserialize(p, data) ==
    LET f  == data.fields
        has(k) == k \in DOMAIN f
        p1 == [p  EXCEPT !.name = f["name"].s]
        p2 == IF has("description")
              THEN [p1 EXCEPT !.description = f["description"].s]
              ELSE p1
        p3 == [p2 EXCEPT !.price = ParseDecimal(f["price"].chars)]
        p4 == [p3 EXCEPT !.available = f["available"].b]
        p5 == [p4 EXCEPT !.category = CategoryOf(f["category"].s)]
    IN  IF ~IsMapping(data) THEN [ok |-> FALSE, product |-> p]
        ELSE IF ~has("name") THEN [ok |-> FALSE, product |-> p]
        ELSE IF ~has("price") THEN [ok |-> FALSE, product |-> p2]
        ELSE IF ~has("available") THEN [ok |-> FALSE, product |-> p3]
        ELSE IF f["available"].t # "bool" THEN [ok |-> FALSE, product |-> p3]
        ELSE IF ~has("category") THEN [ok |-> FALSE, product |-> p4]
        ELSE IF ~HasCategory(f["category"].s) THEN [ok |-> FALSE, product |-> p4]
        ELSE [ok |-> TRUE, product |-> p5]

\* Product.all(): every row.
All(t) == t

\* Product.find(id): the row with that id, or no row.
RowsWithId(t, id) == {i \in 1 .. Len(t) : t[i].id = id}

Found(t, id) == RowsWithId(t, id) # {}

Find(t, id) == t[CHOOSE i \in RowsWithId(t, id) : TRUE]

\* Product.find_by_name(name): the rows whose name is exactly `name`.
FindByName(t, name) == SelectSeq(t, LAMBDA row : row.name = name)

\* Product.find_by_category(category): the rows of that category.
FindByCategory(t, c) == SelectSeq(t, LAMBDA row : row.category = c)

\* Mutant of Create: the id is the number of rows plus one, so that the id of
\* a deleted product is handed out again.
CreateCountingRows(t, seq, p) == Append(t, [p EXCEPT !.id = Len(t) + 1])

\* create(): the store assigns the next id of its sequence, whatever id the
\* entity carried, and appends the row.
Create(t, seq, p) == Append(t, [p EXCEPT !.id = seq])

\* update(): fails on an entity without id; otherwise overwrites its row.
UpdateFails(p) == p.id = None

Update(t, p) == [i \in 1 .. Len(t) |-> IF t[i].id = p.id THEN p ELSE t[i]]

\* delete(): removes the entity's row.
Delete(t, p) == SelectSeq(t, LAMBDA row : row.id # p.id)

(***************************************************************************)
(* Requests.  The headers and the query arguments are functions from the   *)
(* names present to their values, so that a header can be absent.          *)
(***************************************************************************)
NoHeaders == [h \in {} |-> ""]

ContentType(v) == [h \in {"Content-Type"} |-> v]

JsonHeaders == ContentType("application/json")

Headers ==
    {NoHeaders, ContentType("application/json"), ContentType("plain/text"),
     ContentType("application/json; charset=utf-8")}

NoArgs == [a \in {} |-> ""]

NameArg(v) == [a \in {"name"} |-> v]

CategoryArg(v) == [a \in {"category"} |-> v]

ListArgs ==
    {NoArgs, NameArg("Fedora"), NameArg("Apple"), CategoryArg("CLOTHS"),
     CategoryArg("FOOD")}

NameArgs == {NoArgs, NameArg("Fedora"), NameArg("Apple"), NameArg("")}

Object(fields) == [kind |-> "object", fields |-> fields]

NoBody == [kind |-> "none"]

Fedora ==
    [name |-> JStr("Fedora"), description |-> JStr("A red hat"),
     price |-> JText(<<"1", "2", ".", "5", "0">>), available |-> JBool(TRUE),
     category |-> JStr("CLOTHS")]

Apple ==
    [name |-> JStr("Apple"), description |-> JStr("A fruit"),
     price |-> JText(<<"0", "7", ".", "5", "0">>), available |-> JBool(FALSE),
     category |-> JStr("FOOD")]

\* A serialized product sent back with another description, id included.
FedoraUnknown ==
    [id |-> JInt(1), name |-> JStr("Fedora"), description |-> JStr("unknown"),
     price |-> JText(<<"1", "2", ".", "5">>), available |-> JBool(TRUE),
     category |-> JStr("CLOTHS")]

Without(f, k) == [x \in (DOMAIN f) \ {k} |-> f[x]]

ValidBodies == {Object(Fedora), Object(Apple), Object(FedoraUnknown)}

InvalidBodies ==
    {Object(Without(Fedora, "name")),
     Object(Without(Apple, "price")),
     Object([Fedora EXCEPT !.category = JStr("MACHINE")]),
     Object([Apple EXCEPT !.available = JStr("SUPERPOSITION")]),
     [kind |-> "array"]}

Bodies == ValidBodies \cup InvalidBodies

PathIds == 0 .. MaxId

Request(verb, path, id, headers, args, body) ==
    [verb |-> verb, path |-> path, id |-> id, headers |-> headers,
     args |-> args, body |-> body]

(***************************************************************************)
(* Responses: the status, the kind of body with the objects it holds (one  *)
(* for an object, any number for an array), and whether a Location header  *)
(* is set.                                                                 *)
(***************************************************************************)
Response(status, kind, items, location) ==
    [status |-> status, kind |-> kind, items |-> items, location |-> location]

\* abort(status): the error handlers answer with the status and a message.
Abort(status) == Response(status, "error", <<>>, FALSE)

SerializeAll(products) == [i \in 1 .. Len(products) |-> Serialize(products[i])]

\* The workers that answer requests side by side.
Workers == {1, 2}

\* A worker that has no request in hand.
Idle ==
    [pc |-> "idle", id |-> None, found |-> FALSE, entity |-> NewProduct,
     status |-> 0]

\* The store is empty and no request was made (setUp of the tests).
StoreInit ==
    /\ table = <<>>
    /\ nextId = 1
    /\ request = Request("NONE", "", None, NoHeaders, NoArgs, NoBody)
    /\ response = Response(0, "none", <<>>, FALSE)
    /\ before = <<>>
    /\ assigned = <<>>
    /\ deleted = {}

\* No call was made on the model.
ModelInit ==
    /\ product = NewProduct
    /\ payload = NoBody
    /\ copy = NewProduct
    /\ raised = FALSE
    /\ call = "none"

Init ==
    /\ StoreInit
    /\ ModelInit
    /\ procs = [w \in Workers |-> Idle]

\* One request handled: the response, the table and the id sequence after it.
Handled(req, resp, t, seq) ==
    /\ request' = req
    /\ response' = resp
    /\ table' = t
    /\ nextId' = seq
    /\ before' = table
    /\ assigned' = IF resp.status = HTTP_201_CREATED
                   THEN Append(assigned, resp.items[1]["id"])
                   ELSE assigned
    /\ UNCHANGED <<modelVars, procs>>

\* Mutant of check_content_type: any Content-Type passes, only its absence
\* is refused.
check_content_type_any(headers, content_type) ==
    "Content-Type" \in DOMAIN headers

(***************************************************************************)
(* check_content_type: TRUE when the request passes, FALSE when it is      *)
(* aborted with 415.                                                       *)
(***************************************************************************)
check_content_type(headers, content_type) ==
    IF "Content-Type" \notin DOMAIN headers THEN FALSE
    ELSE headers["Content-Type"] = content_type

\* Mutant of create_products: the response is built before create(), from the
\* entity that has no id yet.
create_products_early_message(headers, body) ==
    LET req == Request("POST", "/products", None, headers, NoArgs, body)
        r   == Deserialize(NewProduct, body)
        t   == Create(table, nextId, r.product)
    IN  /\ deleted' = deleted
        /\ IF ~check_content_type(headers, "application/json")
           THEN Handled(req, Abort(HTTP_415_UNSUPPORTED_MEDIA_TYPE), table, nextId)
           ELSE IF ~r.ok
           THEN Handled(req, Abort(HTTP_400_BAD_REQUEST), table, nextId)
           ELSE /\ Len(table) < MaxRows
                /\ nextId <= MaxId
                /\ Handled(req,
                           Response(HTTP_201_CREATED, "object",
                                    <<Serialize(r.product)>>, TRUE),
                           t, nextId + 1)

\* Mutant of create_products: create() runs before the payload is validated,
\* so a rejected payload leaves a row behind.
create_products_before_validation(headers, body) ==
    LET req == Request("POST", "/products", None, headers, NoArgs, body)
        r   == Deserialize(NewProduct, body)
        t   == Create(table, nextId, r.product)
    IN  /\ deleted' = deleted
        /\ IF ~check_content_type(headers, "application/json")
           THEN Handled(req, Abort(HTTP_415_UNSUPPORTED_MEDIA_TYPE), table, nextId)
           ELSE /\ Len(table) < MaxRows
                /\ nextId <= MaxId
                /\ IF ~r.ok
                   THEN Handled(req, Abort(HTTP_400_BAD_REQUEST), t, nextId + 1)
                   ELSE Handled(req,
                                Response(HTTP_201_CREATED, "object",
                                         <<Serialize(t[Len(t)])>>, TRUE),
                                t, nextId + 1)

(***************************************************************************)
(* POST /products                                                          *)
(***************************************************************************)
create_products(headers, body) ==
    LET req == Request("POST", "/products", None, headers, NoArgs, body)
        r   == Deserialize(NewProduct, body)
        t   == Create(table, nextId, r.product)
    IN  /\ deleted' = deleted
        /\ IF ~check_content_type(headers, "application/json")
           THEN Handled(req, Abort(HTTP_415_UNSUPPORTED_MEDIA_TYPE), table, nextId)
           ELSE IF ~r.ok
           THEN Handled(req, Abort(HTTP_400_BAD_REQUEST), table, nextId)
           ELSE /\ Len(table) < MaxRows
                /\ nextId <= MaxId
                /\ Handled(req,
                           Response(HTTP_201_CREATED, "object",
                                    <<Serialize(t[Len(t)])>>, TRUE),
                           t, nextId + 1)

\* Mutant of get_all_products: the emptiness test is off by one.
get_all_products_off_by_one(args) ==
    LET req      == Request("GET", "/products", None, NoHeaders, args, NoBody)
        products == All(table)
    IN  /\ deleted' = deleted
        /\ IF Len(products) <= 1
           THEN Handled(req, Abort(HTTP_404_NOT_FOUND), table, nextId)
           ELSE Handled(req,
                        Response(HTTP_200_OK, "array", SerializeAll(products), FALSE),
                        table, nextId)

(***************************************************************************)
(* GET /products                                                           *)
(***************************************************************************)
get_all_products(args) ==
    LET req      == Request("GET", "/products", None, NoHeaders, args, NoBody)
        products == All(table)
    IN  /\ deleted' = deleted
        /\ IF Len(products) < 1
           THEN Handled(req, Abort(HTTP_404_NOT_FOUND), table, nextId)
           ELSE Handled(req,
                        Response(HTTP_200_OK, "array", SerializeAll(products), FALSE),
                        table, nextId)

(***************************************************************************)
(* GET /products/name/                                                     *)
(***************************************************************************)
get_products_by_name(args) ==
    LET req      == Request("GET", "/products/name/", None, NoHeaders, args, NoBody)
        given    == "name" \in DOMAIN args /\ args["name"] # ""
        products == IF given THEN FindByName(table, args["name"]) ELSE All(table)
    IN  /\ deleted' = deleted
        /\ Handled(req,
                   Response(HTTP_200_OK, "array", SerializeAll(products), FALSE),
                   table, nextId)

\* Mutant of get_products: the product is returned without the Location
\* header.
get_products_no_location(product_id) ==
    LET req == Request("GET", "/products/<product_id>", product_id, NoHeaders,
                       NoArgs, NoBody)
    IN  /\ deleted' = deleted
        /\ IF ~Found(table, product_id)
           THEN Handled(req, Response(HTTP_404_NOT_FOUND, "error", <<>>, TRUE),
                        table, nextId)
           ELSE Handled(req,
                        Response(HTTP_200_OK, "object",
                                 <<Serialize(Find(table, product_id))>>, FALSE),
                        table, nextId)

(***************************************************************************)
(* GET /products/<product_id>                                              *)
(***************************************************************************)
get_products(product_id) ==
    LET req == Request("GET", "/products/<product_id>", product_id, NoHeaders,
                       NoArgs, NoBody)
    IN  /\ deleted' = deleted
        /\ IF ~Found(table, product_id)
           THEN Handled(req, Response(HTTP_404_NOT_FOUND, "error", <<>>, TRUE),
                        table, nextId)
           ELSE Handled(req,
                        Response(HTTP_200_OK, "object",
                                 <<Serialize(Find(table, product_id))>>, TRUE),
                        table, nextId)

\* Mutant of update_products: the entity takes the id of the body when the
\* body carries one.
update_products_body_id(product_id, headers, body) ==
    LET req == Request("PUT", "/products/<product_id>", product_id, headers,
                       NoArgs, body)
        r   == Deserialize(Find(table, product_id), body)
        p   == IF "id" \in DOMAIN body.fields
               THEN [r.product EXCEPT !.id = body.fields["id"].n]
               ELSE r.product
    IN  /\ deleted' = deleted
        /\ IF ~check_content_type(headers, "application/json")
           THEN Handled(req, Abort(HTTP_415_UNSUPPORTED_MEDIA_TYPE), table, nextId)
           ELSE IF ~Found(table, product_id)
           THEN Handled(req, Abort(HTTP_404_NOT_FOUND), table, nextId)
           ELSE IF ~r.ok \/ UpdateFails(p)
           THEN Handled(req, Abort(HTTP_400_BAD_REQUEST), table, nextId)
           ELSE Handled(req,
                        Response(HTTP_200_OK, "object", <<Serialize(p)>>, TRUE),
                        Update(table, p), nextId)

\* Mutant of update_products: an id that is not stored is created instead of
\* answered 404.
update_products_upsert(product_id, headers, body) ==
    LET req == Request("PUT", "/products/<product_id>", product_id, headers,
                       NoArgs, body)
        r   == Deserialize(Find(table, product_id), body)
        n   == Deserialize(NewProduct, body)
    IN  /\ deleted' = deleted
        /\ IF ~check_content_type(headers, "application/json")
           THEN Handled(req, Abort(HTTP_415_UNSUPPORTED_MEDIA_TYPE), table, nextId)
           ELSE IF ~Found(table, product_id)
           THEN IF n.ok /\ Len(table) < MaxRows
                THEN Handled(req,
                             Response(HTTP_200_OK, "object",
                                      <<Serialize([n.product EXCEPT !.id = product_id])>>,
                                      TRUE),
                             Append(table, [n.product EXCEPT !.id = product_id]), nextId)
                ELSE Handled(req, Abort(HTTP_404_NOT_FOUND), table, nextId)
           ELSE IF ~r.ok \/ UpdateFails(r.product)
           THEN Handled(req, Abort(HTTP_400_BAD_REQUEST), table, nextId)
           ELSE Handled(req,
                        Response(HTTP_200_OK, "object", <<Serialize(r.product)>>, TRUE),
                        Update(table, r.product), nextId)

\* Mutant of update_products: the entity is committed as deserialize left it,
\* also when the payload was rejected.
update_products_commits_rejected(product_id, headers, body) ==
    LET req == Request("PUT", "/products/<product_id>", product_id, headers,
                       NoArgs, body)
        r   == Deserialize(Find(table, product_id), body)
    IN  /\ deleted' = deleted
        /\ IF ~check_content_type(headers, "application/json")
           THEN Handled(req, Abort(HTTP_415_UNSUPPORTED_MEDIA_TYPE), table, nextId)
           ELSE IF ~Found(table, product_id)
           THEN Handled(req, Abort(HTTP_404_NOT_FOUND), table, nextId)
           ELSE IF ~r.ok \/ UpdateFails(r.product)
           THEN Handled(req, Abort(HTTP_400_BAD_REQUEST),
                        Update(table, r.product), nextId)
           ELSE Handled(req,
                        Response(HTTP_200_OK, "object", <<Serialize(r.product)>>, TRUE),
                        Update(table, r.product), nextId)

(***************************************************************************)
(* PUT /products/<product_id>                                              *)
(***************************************************************************)
update_products(product_id, headers, body) ==
    LET req == Request("PUT", "/products/<product_id>", product_id, headers,
                       NoArgs, body)
        r   == Deserialize(Find(table, product_id), body)
    IN  /\ deleted' = deleted
        /\ IF ~check_content_type(headers, "application/json")
           THEN Handled(req, Abort(HTTP_415_UNSUPPORTED_MEDIA_TYPE), table, nextId)
           ELSE IF ~Found(table, product_id)
           THEN Handled(req, Abort(HTTP_404_NOT_FOUND), table, nextId)
           ELSE IF ~r.ok \/ UpdateFails(r.product)
           THEN Handled(req, Abort(HTTP_400_BAD_REQUEST), table, nextId)
           ELSE Handled(req,
                        Response(HTTP_200_OK, "object", <<Serialize(r.product)>>, TRUE),
                        Update(table, r.product), nextId)

\* Mutant of delete_product: answers 204 without removing the row.
delete_product_keeps_row(product_id) ==
    LET req == Request("DELETE", "/products/<product_id>", product_id, NoHeaders,
                       NoArgs, NoBody)
    IN  IF ~Found(table, product_id)
        THEN /\ deleted' = deleted
             /\ Handled(req, Abort(HTTP_404_NOT_FOUND), table, nextId)
        ELSE /\ deleted' = deleted \cup {product_id}
             /\ Handled(req, Response(HTTP_204_NO_CONTENT, "empty", <<>>, TRUE),
                        table, nextId)

(***************************************************************************)
(* DELETE /products/<product_id>                                           *)
(***************************************************************************)
delete_product(product_id) ==
    LET req == Request("DELETE", "/products/<product_id>", product_id, NoHeaders,
                       NoArgs, NoBody)
    IN  IF ~Found(table, product_id)
        THEN /\ deleted' = deleted
             /\ Handled(req, Abort(HTTP_404_NOT_FOUND), table, nextId)
        ELSE /\ deleted' = deleted \cup {product_id}
             /\ Handled(req, Response(HTTP_204_NO_CONTENT, "empty", <<>>, TRUE),
                        Delete(table, Find(table, product_id)), nextId)

Next ==
    \/ \E headers \in Headers, body \in Bodies : create_products(headers, body)
    \/ \E args \in ListArgs : get_all_products(args)
    \/ \E args \in NameArgs : get_products_by_name(args)
    \/ \E product_id \in PathIds : get_products(product_id)
    \/ \E product_id \in PathIds, headers \in Headers, body \in Bodies :
           update_products(product_id, headers, body)
    \/ \E product_id \in PathIds : delete_product(product_id)

Spec == Init /\ [][Next]_vars

(***************************************************************************)
(* DELETE /products/<product_id> answered by two workers side by side.     *)
(* Each worker runs delete_product on its own request; the lookup and the  *)
(* removal are two operations on the store, each atomic, and the other     *)
(* worker may run between them.  delete() of a row that is gone removes    *)
(* nothing and raises nothing.                                             *)
(***************************************************************************)
\* product = Product.find(product_id)
delete_product_find(w, product_id) ==
    /\ procs[w].pc = "idle"
    /\ procs' = [procs EXCEPT ![w] =
                     [pc     |-> "looked",
                      id     |-> product_id,
                      found  |-> Found(table, product_id),
                      entity |-> IF Found(table, product_id)
                                 THEN Find(table, product_id)
                                 ELSE NewProduct,
                      status |-> 0]]
    /\ UNCHANGED <<request, response, storeVars, modelVars>>

\* if product is None: abort(404); product.delete(); return 204
delete_product_delete(w) ==
    /\ procs[w].pc = "looked"
    /\ before' = table
    /\ IF ~procs[w].found
       THEN /\ procs' = [procs EXCEPT ![w].pc = "done",
                                      ![w].status = HTTP_404_NOT_FOUND]
            /\ UNCHANGED <<table, deleted>>
       ELSE /\ procs' = [procs EXCEPT ![w].pc = "done",
                                      ![w].status = HTTP_204_NO_CONTENT]
            /\ table' = Delete(table, procs[w].entity)
            /\ deleted' = deleted \cup {procs[w].id}
    /\ UNCHANGED <<request, response, nextId, assigned, modelVars>>

ConcurrentNext ==
    \/ \E body \in ValidBodies : create_products(JsonHeaders, body)
    \/ \E w \in Workers, product_id \in PathIds : delete_product_find(w, product_id)
    \/ \E w \in Workers : delete_product_delete(w)

ConcurrentSpec == Init /\ [][ConcurrentNext]_vars

(***************************************************************************)
(* The model used directly, as the tests of the model do: a caller holds   *)
(* an entity in memory, changes its attributes and calls create() and      *)
(* update() on it.                                                         *)
(***************************************************************************)
\* ProductFactory() with its id reset: an entity that was never persisted.
FactoryProduct(body) == Deserialize(NewProduct, body).product

\* A call on the model that is no request: the request and the workers stay.
Called(name, p, failed) ==
    /\ call' = name
    /\ product' = p
    /\ raised' = failed
    /\ UNCHANGED <<payload, copy, request, response, assigned, deleted, procs>>

product_factory(body) ==
    /\ Called("ProductFactory", FactoryProduct(body), FALSE)
    /\ UNCHANGED <<table, nextId, before>>

\* product.create(): the row is inserted and the entity takes its id.
product_create ==
    /\ product.id = None
    /\ call # "none"
    /\ Len(table) < MaxRows
    /\ nextId <= MaxId
    /\ table' = Create(table, nextId, product)
    /\ nextId' = nextId + 1
    /\ before' = table
    /\ Called("create", [product EXCEPT !.id = nextId], FALSE)

\* product.description = ...
product_set_description(description) ==
    /\ call # "none"
    /\ Called("description", [product EXCEPT !.description = description], FALSE)
    /\ UNCHANGED <<table, nextId, before>>

\* product.id = None
product_set_id_none ==
    /\ call # "none"
    /\ Called("id", [product EXCEPT !.id = None], FALSE)
    /\ UNCHANGED <<table, nextId, before>>

\* Mutant of product_update: an entity without id is inserted as a new row.
product_update_upsert ==
    /\ call # "none"
    /\ before' = table
    /\ IF UpdateFails(product)
       THEN /\ Len(table) < MaxRows
            /\ nextId <= MaxId
            /\ table' = Create(table, nextId, product)
            /\ nextId' = nextId + 1
            /\ Called("update", product, FALSE)
       ELSE /\ table' = Update(table, product)
            /\ nextId' = nextId
            /\ Called("update", product, FALSE)

\* product.update(): raises on an entity without id, else overwrites its row.
product_update ==
    /\ call # "none"
    /\ before' = table
    /\ nextId' = nextId
    /\ IF UpdateFails(product)
       THEN /\ table' = table
            /\ Called("update", product, TRUE)
       ELSE /\ table' = Update(table, product)
            /\ Called("update", product, FALSE)

ModelNext ==
    \/ \E body \in ValidBodies : product_factory(body)
    \/ product_create
    \/ product_set_description("Update test description")
    \/ product_set_id_none
    \/ product_update

ModelSpec == Init /\ [][ModelNext]_vars

(***************************************************************************)
(* serialize and deserialize on their own: the entity is any valid         *)
(* product, the payload any dictionary of the bounded set below or the     *)
(* dictionary serialize has produced.  A run is one test: a product is     *)
(* built, possibly serialized, and one payload is deserialized.            *)
(***************************************************************************)
Prices == [coef : {0, 5, 1250}, exp : {0 - k : k \in 0 .. MaxScale}]

\* The products a factory may build, none of them persisted.
FactoryProducts ==
    [id : {None}, name : {"Fedora", "Apple"}, description : {"", "A red hat"},
     price : Prices, available : BOOLEAN, category : Category]

Absent == [t |-> "absent"]

\* What a payload may hold under each key, the key's absence included.
PayloadChoices ==
    [id          : {Absent, JInt(1)},
     name        : {Absent, JStr("Fedora")},
     description : {Absent, JStr("A red hat")},
     price       : {Absent, JText(<<"1", "2", ".", "5", "0">>)},
     available   : {Absent, JBool(TRUE), JBool(FALSE), JStr("SUPERPOSITION"), JInt(1)},
     category    : {Absent, JStr("CLOTHS"), JStr("UNKNOWN"), JStr("MACHINE")}]

PresentKeys(choice) == {k \in DOMAIN choice : choice[k] # Absent}

\* The payloads: every mapping of the choices above, and what is no mapping
\* (a list, another entity).
Payloads ==
    {Object([k \in PresentKeys(choice) |-> choice[k]]) : choice \in PayloadChoices}
        \cup {[kind |-> "array"], [kind |-> "product"]}

SerdeInit ==
    /\ StoreInit
    /\ product \in FactoryProducts
    /\ payload = NoBody
    /\ copy = NewProduct
    /\ raised = FALSE
    /\ call = "ProductFactory"
    /\ procs = [w \in Workers |-> Idle]

\* dictionary = product.serialize()
product_serialize ==
    /\ call = "ProductFactory"
    /\ payload' = Object(Serialize(product))
    /\ call' = "serialize"
    /\ raised' = FALSE
    /\ UNCHANGED <<product, copy, request, response, storeVars, procs>>

\* Product().deserialize(dictionary): raises on an invalid payload.
product_deserialize(dictionary) ==
    LET r == Deserialize(NewProduct, dictionary)
    IN  /\ call \in {"ProductFactory", "serialize"}
        /\ payload' = dictionary
        /\ call' = "deserialize"
        /\ copy' = r.product
        /\ raised' = ~r.ok
        /\ UNCHANGED <<product, request, response, storeVars, procs>>

SerdeNext ==
    \/ product_serialize
    \/ \E dictionary \in Payloads : product_deserialize(dictionary)
    \/ call = "serialize" /\ product_deserialize(payload)

SerdeSpec == SerdeInit /\ [][SerdeNext]_vars

(***************************************************************************)
(* Properties.                                                             *)
(***************************************************************************)
IsList == request.verb = "GET" /\ request.path = "/products"

IsPost == request.verb = "POST" /\ request.path = "/products"

IsPut == request.verb = "PUT" /\ request.path = "/products/<product_id>"

IsGet == request.verb = "GET" /\ request.path = "/products/<product_id>"

IsDelete == request.verb = "DELETE" /\ request.path = "/products/<product_id>"

RowsNamed(t, name) == {i \in 1 .. Len(t) : t[i].name = name}

RowsOfCategory(t, name) == {i \in 1 .. Len(t) : CategoryName(t[i].category) = name}

\* C1: GET /products?name=X answers 200 with an array in which every product
\* is named X and whose length is the number of stored products named X.
C1_ListByName ==
    (IsList /\ "name" \in DOMAIN request.args) =>
        /\ response.status = HTTP_200_OK
        /\ response.kind = "array"
        /\ \A i \in 1 .. Len(response.items) :
               response.items[i]["name"] = JStr(request.args["name"])
        /\ Len(response.items) = Cardinality(RowsNamed(table, request.args["name"]))

\* C2: GET /products?category=C answers 200 with an array in which every
\* product is of category C and whose length is the number of stored products
\* of category C.
C2_ListByCategory ==
    (IsList /\ "category" \in DOMAIN request.args) =>
        /\ response.status = HTTP_200_OK
        /\ response.kind = "array"
        /\ \A i \in 1 .. Len(response.items) :
               response.items[i]["category"] = JStr(request.args["category"])
        /\ Len(response.items)
               = Cardinality(RowsOfCategory(table, request.args["category"]))

\* C5: GET /products without query parameters answers 404 exactly when the
\* table is empty, and otherwise 200 with an array that holds the serialized
\* form of every stored product, one entry per product.
C5_ListAll ==
    (IsList /\ request.args = NoArgs) =>
        /\ (response.status = HTTP_404_NOT_FOUND) <=> (Len(table) = 0)
        /\ Len(table) > 0 =>
               /\ response.status = HTTP_200_OK
               /\ response.kind = "array"
               /\ Len(response.items) = Len(table)
               /\ \A i \in 1 .. Len(table) :
                      \E j \in 1 .. Len(response.items) :
                          response.items[j] = Serialize(table[i])

C5_Witness ==
    /\ IsList /\ request.args = NoArgs
    /\ response.status = HTTP_200_OK
    /\ Len(table) = 2
    /\ table[1].name # table[2].name

\* The request in hand is on id, and id was absent when it arrived.
LaterRequestOn(id) == request.id = id /\ ~Found(before, id)

\* C3 as stated: once DELETE has answered 204 for an id the product stays
\* absent, and every later GET, PUT or DELETE on that id answers 404.
C3_DeletedAnswers404 ==
    \A id \in deleted :
        /\ ~Found(table, id)
        /\ (LaterRequestOn(id) /\ (IsGet \/ IsPut \/ IsDelete)) =>
               response.status = HTTP_404_NOT_FOUND

\* C3 as amended: once DELETE has answered 204 for an id the product stays
\* absent; every later GET or DELETE on that id answers 404, and every later
\* PUT on it answers 404 when its Content-Type is application/json and 415
\* otherwise; none answers with the product.
C3_DeletedStaysAbsent ==
    \A id \in deleted :
        /\ ~Found(table, id)
        /\ (LaterRequestOn(id) /\ (IsGet \/ IsDelete)) =>
               response.status = HTTP_404_NOT_FOUND
        /\ (LaterRequestOn(id) /\ IsPut) =>
               /\ response.status
                      = IF request.headers = JsonHeaders
                        THEN HTTP_404_NOT_FOUND
                        ELSE HTTP_415_UNSUPPORTED_MEDIA_TYPE
               /\ response.items = <<>>

C3_Witness ==
    /\ IsPut
    /\ request.id \in deleted
    /\ request.headers = JsonHeaders
    /\ request.body \in ValidBodies
    /\ response.status = HTTP_404_NOT_FOUND
    /\ Len(assigned) > 1
    /\ Len(table) > 0

Distinct(seq) == \A i, j \in 1 .. Len(seq) : i # j => seq[i] # seq[j]

\* C4: every id a create has assigned is a non-null (positive integer) id that
\* no earlier create had assigned, deleted products included; the stored
\* products carry assigned ids and no two of them share one.
C4_FreshIds ==
    /\ \A i \in 1 .. Len(assigned) : assigned[i].t = "int" /\ assigned[i].n > 0
    /\ Distinct(assigned)
    /\ \A i \in 1 .. Len(table) :
           \E j \in 1 .. Len(assigned) : assigned[j] = JInt(table[i].id)
    /\ Distinct([i \in 1 .. Len(table) |-> table[i].id])

C4_Witness ==
    /\ IsPost
    /\ response.status = HTTP_201_CREATED
    /\ deleted # {}
    /\ Len(assigned) = 3
    /\ Len(table) = 2

\* A payload free of defects: a mapping that holds every required key, a
\* boolean `available` and a category of the enumeration.
WellFormed(body) ==
    /\ body.kind = "object"
    /\ {"name", "price", "available", "category"} \subseteq DOMAIN body.fields
    /\ body.fields["available"].t = "bool"
    /\ \E c \in Category : CategoryName(c) = body.fields["category"].s

\* The row holds the values of the payload (the price compared as a decimal).
HoldsValuesOf(row, body) ==
    LET f == body.fields
    IN  /\ row.name = f["name"].s
        /\ row.description = f["description"].s
        /\ DecimalEq(row.price, ParseDecimal(f["price"].chars))
        /\ row.available = f["available"].b
        /\ CategoryName(row.category) = f["category"].s

\* The serialized product carries the values of the payload.
CarriesValuesOf(item, body) ==
    LET f == body.fields
    IN  /\ item["name"] = f["name"]
        /\ item["description"] = f["description"]
        /\ DecimalEq(ParseDecimal(item["price"].chars), ParseDecimal(f["price"].chars))
        /\ item["available"] = f["available"]
        /\ item["category"] = f["category"]

IsPrefix(a, b) == Len(a) <= Len(b) /\ \A i \in 1 .. Len(a) : a[i] = b[i]

\* C6: a POST /products with Content-Type application/json and a valid body
\* answers 201 with a Location header, persists exactly one new product and
\* returns the serialized stored product: the values of the request and a
\* positive integer id.
C6_CreateReturnsStored ==
    (IsPost /\ request.headers = JsonHeaders /\ WellFormed(request.body)) =>
        /\ response.status = HTTP_201_CREATED
        /\ response.location
        /\ Len(table) = Len(before) + 1
        /\ IsPrefix(before, table)
        /\ response.kind = "object"
        /\ Len(response.items) = 1
        /\ response.items[1] = Serialize(table[Len(table)])
        /\ HoldsValuesOf(table[Len(table)], request.body)
        /\ CarriesValuesOf(response.items[1], request.body)
        /\ response.items[1]["id"].t = "int"
        /\ response.items[1]["id"].n > 0

C6_Witness ==
    /\ IsPost
    /\ request.body = Object(Apple)
    /\ response.status = HTTP_201_CREATED
    /\ response.items[1]["price"] # request.body.fields["price"]
    /\ Len(before) = 1

\* C7: a POST /products or PUT /products/{id} whose Content-Type is absent or
\* is not exactly application/json answers 415 and leaves the table as it
\* was, for PUT whether or not the id is stored.
C7_UnsupportedMediaType ==
    ((IsPost \/ IsPut) /\ request.headers # JsonHeaders) =>
        /\ response.status = HTTP_415_UNSUPPORTED_MEDIA_TYPE
        /\ table = before

C7_Witness ==
    /\ IsPut
    /\ request.headers = ContentType("application/json; charset=utf-8")
    /\ request.body \in ValidBodies
    /\ Found(before, request.id)
    /\ response.status = HTTP_415_UNSUPPORTED_MEDIA_TYPE

\* C8: a POST /products with Content-Type application/json whose body fails
\* deserialization answers 400 and persists nothing: the table is as it was.
C8_InvalidBodyRejected ==
    (IsPost /\ request.headers = JsonHeaders /\ ~WellFormed(request.body)) =>
        /\ response.status = HTTP_400_BAD_REQUEST
        /\ table = before

C8_Witness ==
    /\ IsPost
    /\ request.headers = JsonHeaders
    /\ request.body = Object([Fedora EXCEPT !.category = JStr("MACHINE")])
    /\ response.status = HTTP_400_BAD_REQUEST
    /\ Len(table) > 0

\* C9: a PUT /products/{id} with a valid JSON body on a stored id answers 200
\* with the serialized updated product, gives that product the values of the
\* body, keeps its id equal to the path id whatever id the body carries, and
\* leaves every other product as it was.
C9_UpdateInPlace ==
    (/\ IsPut /\ request.headers = JsonHeaders
     /\ WellFormed(request.body) /\ Found(before, request.id)) =>
        /\ response.status = HTTP_200_OK
        /\ response.kind = "object"
        /\ Len(response.items) = 1
        /\ Found(table, request.id)
        /\ response.items[1] = Serialize(Find(table, request.id))
        /\ response.items[1]["id"] = JInt(request.id)
        /\ HoldsValuesOf(Find(table, request.id), request.body)
        /\ Len(table) = Len(before)
        /\ \A i \in 1 .. Len(before) :
               IF before[i].id = request.id
               THEN table[i].id = request.id
               ELSE table[i] = before[i]

C9_Witness ==
    /\ IsPut
    /\ response.status = HTTP_200_OK
    /\ request.body = Object(FedoraUnknown)
    /\ request.body.fields["id"] # JInt(request.id)
    /\ Found(before, request.body.fields["id"].n)
    /\ Find(before, request.id).name = "Apple"

\* C10: a PUT /products/{id} with Content-Type application/json on an id that
\* is not stored answers 404 and creates nothing, whatever the body: the
\* table is as it was.
C10_UpdateNotFound ==
    (IsPut /\ request.headers = JsonHeaders /\ ~Found(before, request.id)) =>
        /\ response.status = HTTP_404_NOT_FOUND
        /\ table = before

C10_Witness ==
    /\ IsPut
    /\ request.headers = JsonHeaders
    /\ request.body \in ValidBodies
    /\ ~Found(before, request.id)
    /\ response.status = HTTP_404_NOT_FOUND
    /\ Len(table) > 0

\* C11: GET /products/{id} answers 200 with the serialized stored product and
\* a Location header when the id is stored and 404 when it is not (so
\* GET /products/0 on the empty table answers 404), and never changes the
\* table.
C11_ReadProduct ==
    IsGet =>
        /\ table = before
        /\ IF Found(before, request.id)
           THEN /\ response.status = HTTP_200_OK
                /\ response.location
                /\ response.kind = "object"
                /\ response.items = <<Serialize(Find(before, request.id))>>
                /\ response.items[1]["id"] = JInt(request.id)
           ELSE /\ response.status = HTTP_404_NOT_FOUND
                /\ response.items = <<>>

C11_Witness ==
    /\ IsGet
    /\ response.status = HTTP_200_OK
    /\ Len(table) = 2
    /\ table[2].id = request.id
    /\ deleted # {}

\* The entity looked up by a PUT, as deserialize left it in memory.
InMemory == Deserialize(Find(before, request.id), request.body).product

\* A PUT on a stored id whose body failed deserialization.
RejectedPut ==
    /\ IsPut
    /\ request.headers = JsonHeaders
    /\ Found(before, request.id)
    /\ ~WellFormed(request.body)

\* C16: a PUT /products/{id} on a stored id whose body fails deserialization
\* answers 400 and leaves the stored product as it was in every field, also
\* when deserialize had overwritten fields of the entity in memory before it
\* failed; a GET of that id that follows returns the product as it was before
\* the PUT.
C16_RejectedUpdateKeepsRow ==
    /\ [](RejectedPut =>
              /\ response.status = HTTP_400_BAD_REQUEST
              /\ table = before)
    /\ [][(RejectedPut /\ request'.verb = "GET"
             /\ request'.path = "/products/<product_id>"
             /\ request'.id = request.id) =>
              /\ response'.status = HTTP_200_OK
              /\ response'.items = <<Serialize(Find(before, request.id))>>]_vars

C16_Witness ==
    /\ RejectedPut
    /\ response.status = HTTP_400_BAD_REQUEST
    /\ InMemory.name # Find(before, request.id).name
    /\ Find(table, request.id) = Find(before, request.id)
    /\ Len(table) = 2

\* C12: update() on a product whose id is null raises a validation error and
\* neither creates nor changes a row: the table is as it was before the call,
\* also when the product had been created and its id was then reset to null.
C12_UpdateWithoutId ==
    (call = "update" /\ product.id = None) =>
        /\ raised
        /\ table = before

C12_Witness ==
    /\ call = "update"
    /\ product.id = None
    /\ raised
    /\ product.description = "Update test description"
    /\ \E i \in 1 .. Len(table) :
           /\ table[i].name = product.name
           /\ table[i].description # product.description

\* C13: deserialize fails with a validation error for every payload that
\* lacks one of the keys name, price, available, category, or whose category
\* is outside the enumeration, or whose available is no boolean, or that is
\* no mapping: it succeeds only on payloads free of these defects.
C13_DeserializeRejects ==
    (call = "deserialize" /\ ~WellFormed(payload)) => raised

C13_Witness ==
    /\ call = "deserialize"
    /\ raised
    /\ payload.kind = "object"
    /\ {"name", "price", "available", "category"} \subseteq DOMAIN payload.fields
    /\ payload.fields["available"] = JInt(1)
    /\ payload.fields["category"] = JStr("CLOTHS")

\* C14: for every valid product P, deserialize(serialize(P)) succeeds and
\* yields a product equal to P in name, description, price, available and
\* category.
C14_RoundTrip ==
    (call = "deserialize" /\ payload = Object(Serialize(product))) =>
        /\ ~raised
        /\ copy.name = product.name
        /\ copy.description = product.description
        /\ DecimalEq(copy.price, product.price)
        /\ copy.available = product.available
        /\ copy.category = product.category

C14_Witness ==
    /\ call = "deserialize"
    /\ payload = Object(Serialize(product))
    /\ ~raised
    /\ product.price = [coef |-> 5, exp |-> 0 - MaxScale]
    /\ copy.price = product.price
    /\ product.category = CategoryOf("FOOD")

\* Both workers have answered a DELETE on the same id, which was stored when
\* the first of them looked it up.
BothDeleted ==
    /\ \A w \in Workers : procs[w].pc = "done"
    /\ procs[1].id = procs[2].id
    /\ \E w \in Workers : procs[w].found

\* C15: when two DELETE /products/{id} requests for the same stored id run
\* side by side, each with its lookup and its removal as separate store
\* operations, every interleaving ends with one request answered 204 and the
\* other 404: never two 204, and never an outcome other than 204 and 404.
C15_OneDeleteWins ==
    BothDeleted =>
        {procs[w].status : w \in Workers}
            = {HTTP_204_NO_CONTENT, HTTP_404_NOT_FOUND}

=============================================================================
